---- MODULE Spec2Model ----
(***************************************************************************)
(* State-machine model of src/src/main.ts: the start-up sequence           *)
(* (initCannon, initPointerLock), the main frame callback animate, the     *)
(* sun frame callback of initThree, the click handler that shoots balls    *)
(* and the lock / unlock handlers.                                         *)
(*                                                                         *)
(* Numbers.  Lengths are in millimetres, velocities in mm/s, masses in     *)
(* grams, directions in thousandths (a unit vector has length Milli).      *)
(* Quantities the program holds in seconds are in ticks, TicksPerSec to    *)
(* the second, so that timeStep = 1/60 s is a whole number of ticks; the   *)
(* performance clock itself is in whole milliseconds, as performance.now() *)
(* reports it.                                                             *)
(***************************************************************************)
EXTENDS Integers, Sequences, FiniteSets, TLC

\* ------------------------------------------------------------- bounds
\* The clock stops the model at MaxNow milliseconds.
MaxNow == 60
\* At most MaxBalls accepted shots.
MaxBalls == 2
\* The number of free boxes built by the first loop of initCannon (100 in
\* the program).
NumBoxes == 1

\* ------------------------------------------------------------- scales
Milli == 10 * 100
\* 60 fixed steps to the second, 50 ticks to the step: 3 ticks to the millisecond
TicksPerSec == 60 * 50
TicksPerMs == TicksPerSec \div Milli

\* -------------------------------------------------- program constants
\* const timeStep = 1 / 60 (seconds), in ticks
timeStep == TicksPerSec \div 60
\* camera far plane (metres)
Far == 1000
\* world.gravity.set(0, -20, 0)
Gravity == <<0, -20 * Milli, 0>>
\* const radius = 1.3 : the user collision sphere
radius == 1300
\* new CANNON.Sphere(0.2) : the ball shape
ballRadius == 200
\* const shootVelocity = 15
shootVelocity == 15
\* linked boxes: size = 0.5, mass = 0.3, space = 0.1 * size, N = 10
size == 500
mass == 300
space == size \div 10
N == 10
\* params.speed = 0.05 rad/s, in micro-radians per millisecond
sunSpeed == 50

\* ------------------------------------------------------------ vectors
Zero3 == <<0, 0, 0>>
\* the unit quaternion (x, y, z, w), in thousandths
Identity == <<0, 0, 0, Milli>>
VAdd(a, b) == <<a[1] + b[1], a[2] + b[2], a[3] + b[3]>>
VSub(a, b) == <<a[1] - b[1], a[2] - b[2], a[3] - b[3]>>
Dot(a, b) == a[1] * b[1] + a[2] * b[2] + a[3] * b[3]
\* Division rounding toward zero, as a float product truncated to the grid.
Quot(a, b) == IF a >= 0 THEN a \div b ELSE -((-a) \div b)
VScaleDiv(a, k, d) == <<Quot(a[1] * k, d), Quot(a[2] * k, d), Quot(a[3] * k, d)>>

RECURSIVE SqrtSearch(_, _, _)
SqrtSearch(n, lo, hi) ==
  IF lo >= hi THEN lo
  ELSE LET mid == (lo + hi + 1) \div 2
       IN IF mid * mid <= n THEN SqrtSearch(n, mid, hi)
                            ELSE SqrtSearch(n, lo, mid - 1)
\* floor of the square root
Isqrt(n) == SqrtSearch(n, 0, 46340)

\* THREE.Vector3.normalize: divideScalar(length() || 1).  A zero vector stays
\* zero.  The length is taken on a grid coarse enough for the squares to fit
\* the integers, and on the vector's own grid when that would round to zero.
Normalize(v) ==
  LET w == <<Quot(v[1], 100), Quot(v[2], 100), Quot(v[3], 100)>>
      lw == Isqrt(Dot(w, w))
      lv == Isqrt(Dot(v, v))
  IN IF v = Zero3 THEN v
     ELSE IF lw > 0 THEN VScaleDiv(w, Milli, lw)
     ELSE IF lv > 0 THEN VScaleDiv(v, Milli, lv)
     ELSE v

\* -------------------------------------------------------------- bodies
\* new CANNON.Body({ mass }): at the origin, at rest, not rotated
NewBody(m) ==
  [mass |-> m, position |-> Zero3, velocity |-> Zero3, quaternion |-> Identity]
\* new THREE.Mesh(...): at the origin, not rotated
NewMesh == [position |-> Zero3, quaternion |-> Identity]

\* ids of the two bodies initCannon creates first
sphereBody == 1
groundBody == 2

\* Math.random() draws of the box loop, as positions (x, y, z)
BoxPositions == {<<-20000, 1000, 30000>>, <<7500, 10500, -4200>>}
\* performance.now() at module load (milliseconds since the page's time origin)
StartTimes == {9}
\* milliseconds between a frame callback and the one before
FrameDeltas == {10, 34}

VARIABLES
  pc,            \* where start-up is: boxes, chainInit, chain, pointerLock, animate, running
  phase,         \* within a display frame: "idle" between frames, "sunDone"
                 \* between the two frame callbacks
  i,             \* loop index of the loop pc names
  last,          \* let last (initCannon): id of the body the next link hangs from
  bodies,        \* every CANNON.Body created, by id
  worldBodies,   \* world.bodies: ids in insertion order
  constraints,   \* world.constraints in insertion order
  accumulator,   \* world.accumulator (ticks)
  boxes, boxMeshes, balls, ballMeshes,
  enabled,       \* controls.enabled
  display,       \* instructions.style.display
  now,           \* the performance clock (ms)
  lastCallTime,  \* let lastCallTime (ticks)
  lastTime,      \* let lastTime of initThree (ms)
  theta,         \* let theta of initThree (micro-radians)
  \* history, read by the properties only
  lastEvent,     \* the handler that ran last
  frameTrace,    \* the calls the last frame callback made, in order
  lastLockEvent, \* the last of lock / unlock, "none" before any
  frameNow,      \* clock at the last animate callback, -1 before any
  prevFrameNow,  \* clock at the animate callback before that, -1 before any
  lastStepDt,    \* elapsed time handed to the last world.step call
  stepElapsed,   \* sum of the elapsed times handed to world.step
  substeps,      \* fixed steps integrated so far
  initialBodies, \* bodies as start-up left them
  lastShot       \* direction and origin of the last accepted shot

vars == <<pc, phase, i, last, bodies, worldBodies, constraints, accumulator, boxes,
          boxMeshes, balls, ballMeshes, enabled, display, now, lastCallTime,
          lastTime, theta, lastEvent, frameTrace, lastLockEvent, frameNow,
          prevFrameNow, lastStepDt, stepElapsed, substeps, initialBodies,
          lastShot>>

worldVars == <<bodies, worldBodies, constraints, accumulator, boxes, boxMeshes,
               balls, ballMeshes>>
clockVars == <<now, lastCallTime, lastTime, theta>>
stepHistory == <<frameNow, prevFrameNow, lastStepDt, stepElapsed, substeps>>

\* The state as line 185 of initCannon leaves it: the world holds the user's
\* sphere (mass 5, at (0, 5, 0)) and the static ground plane.
Init ==
  /\ pc = "boxes"
  /\ phase = "idle"
  /\ i = 0
  /\ last = 0
  /\ bodies = << [NewBody(5 * Milli) EXCEPT !.position = <<0, 5 * Milli, 0>>],
                 [NewBody(0) EXCEPT !.quaternion = <<-707, 0, 0, 707>>] >>
  /\ worldBodies = <<sphereBody, groundBody>>
  /\ constraints = <<>>
  /\ accumulator = 0
  /\ boxes = <<>> /\ boxMeshes = <<>> /\ balls = <<>> /\ ballMeshes = <<>>
  /\ enabled = FALSE
  /\ display = ""
  /\ now \in StartTimes
  /\ lastCallTime = now * TicksPerSec
  /\ lastTime = 0
  /\ theta = 0
  /\ lastEvent = "load"
  /\ frameTrace = <<>>
  /\ lastLockEvent = "none"
  /\ frameNow = -1 /\ prevFrameNow = -1
  /\ lastStepDt = 0 /\ stepElapsed = 0 /\ substeps = 0
  /\ initialBodies = <<>>
  /\ lastShot = [valid |-> FALSE, direction |-> Zero3, origin |-> Zero3, ball |-> 0]

\* world.addBody(body): appends to world.bodies
AddBody(wb, id) == Append(wb, id)
\* world.addConstraint(constraint): appends to world.constraints
AddConstraint(cs, c) == Append(cs, c)
\* new CANNON.PointToPointConstraint(bodyA, pivotA, bodyB, pivotB)
PointToPointConstraint(bodyA, pivotA, bodyB, pivotB) ==
  [bodyA |-> bodyA, pivotA |-> pivotA, bodyB |-> bodyB, pivotB |-> pivotB]

\* One iteration of the box loop: a mass-5 box at a random position, its
\* mesh placed on it, both stored.
AddBox ==
  /\ pc = "boxes"
  /\ i < NumBoxes
  /\ \E p \in BoxPositions :
       LET id == Len(bodies) + 1
           boxBody == [NewBody(5 * Milli) EXCEPT !.position = p]
           boxMesh == [NewMesh EXCEPT !.position = boxBody.position]
       IN /\ bodies' = Append(bodies, boxBody)
          /\ worldBodies' = AddBody(worldBodies, id)
          /\ boxes' = Append(boxes, id)
          /\ boxMeshes' = Append(boxMeshes, boxMesh)
  /\ i' = i + 1
  /\ pc' = IF i + 1 < NumBoxes THEN "boxes" ELSE "chainInit"
  /\ lastEvent' = "initCannon"
  /\ UNCHANGED <<phase, last, constraints, accumulator, balls, ballMeshes, enabled,
                 display, clockVars, frameTrace, lastLockEvent, stepHistory,
                 initialBodies, lastShot>>

\* let last = new CANNON.Body({ mass: 0 }): a body that is never added to
\* the world.
BeginChain ==
  /\ pc = "chainInit"
  /\ bodies' = Append(bodies, NewBody(0))
  /\ last' = Len(bodies) + 1
  /\ i' = 0
  /\ pc' = "chain"
  /\ lastEvent' = "initCannon"
  /\ UNCHANGED <<phase, worldBodies, constraints, accumulator, boxes, boxMeshes, balls,
                 ballMeshes, enabled, display, clockVars, frameTrace,
                 lastLockEvent, stepHistory, initialBodies, lastShot>>

\* mass of link k of the chain: the first one is static
LinkMass(k) == IF k = 0 THEN 0 ELSE mass
\* (faulty variant of LinksToLast: the first link is tied to the placeholder too)
LinksAlways(k) == TRUE
\* whether link k is tied to the one before: if (i > 0)
LinksToLast(k) == k > 0
\* the two constraints of a link
LinkConstraints(boxBody, prev) ==
  << PointToPointConstraint(boxBody, <<-size, size + space, 0>>,
                            prev, <<-size, -size - space, 0>>),
     PointToPointConstraint(boxBody, <<size, size + space, 0>>,
                            prev, <<size, -size - space, 0>>) >>

\* One iteration of the linked-box loop.  The mesh is created and stored but
\* its position is not set.
AddLinkedBox ==
  /\ pc = "chain"
  /\ i < N
  /\ LET id == Len(bodies) + 1
         boxBody == [NewBody(LinkMass(i)) EXCEPT
                       !.position = <<5 * Milli,
                                      (N - i) * (size * 2 + 2 * space) + size * 2 + space,
                                      0>>]
         boxMesh == NewMesh
         cs == LinkConstraints(id, last)
     IN /\ bodies' = Append(bodies, boxBody)
        /\ worldBodies' = AddBody(worldBodies, id)
        /\ boxes' = Append(boxes, id)
        /\ boxMeshes' = Append(boxMeshes, boxMesh)
        /\ constraints' = IF LinksToLast(i)
                            THEN AddConstraint(AddConstraint(constraints, cs[1]), cs[2])
                            ELSE constraints
        /\ last' = id
  /\ i' = i + 1
  /\ pc' = IF i + 1 < N THEN "chain" ELSE "pointerLock"
  /\ lastEvent' = "initCannon"
  /\ UNCHANGED <<phase, accumulator, balls, ballMeshes, enabled, display, clockVars,
                 frameTrace, lastLockEvent, stepHistory, initialBodies, lastShot>>

\* initPointerLock: the controls are created, not enabled; the handlers are
\* registered.  The synchronous call animate() follows.
InitPointerLock ==
  /\ pc = "pointerLock"
  /\ enabled' = FALSE
  /\ initialBodies' = bodies
  /\ pc' = "animate"
  /\ lastEvent' = "initPointerLock"
  /\ UNCHANGED <<phase, i, last, worldVars, display, clockVars, frameTrace,
                 lastLockEvent, stepHistory, lastShot>>

\* ------------------------------------------------------- physics world
\* One fixed step of dt ticks: gravity on the bodies of the world that have
\* mass, velocities integrated, then positions.  Contacts and constraints
\* are not resolved here: bodies move ballistically, and nothing turns them.
Integrate(b, dt) ==
  LET v == VAdd(b.velocity, VScaleDiv(Gravity, dt, TicksPerSec))
  IN [b EXCEPT !.velocity = v,
               !.position = VAdd(@, VScaleDiv(v, dt, TicksPerSec))]
InWorld(id) == \E k \in DOMAIN worldBodies : worldBodies[k] = id
InternalStep(bs, dt) ==
  [id \in DOMAIN bs |->
     IF bs[id].mass > 0 /\ InWorld(id) THEN Integrate(bs[id], dt) ELSE bs[id]]

\* while (accumulator >= dt) { internalStep(dt); accumulator -= dt }
RECURSIVE StepLoop(_, _, _, _)
StepLoop(bs, acc, dt, n) ==
  IF acc >= dt THEN StepLoop(InternalStep(bs, dt), acc - dt, dt, n + 1)
  ELSE [bodies |-> bs, accumulator |-> acc, n |-> n]

\* (faulty variant of WorldStep: the remainder is thrown away after the loop)
WorldStepDropsRemainder(W, fixedDt, elapsed) ==
  LET r == StepLoop(W.bodies, W.accumulator + elapsed, fixedDt, 0)
  IN [W EXCEPT !.bodies = r.bodies,
               !.accumulator = 0,
               !.lastStepDt = elapsed,
               !.stepElapsed = @ + elapsed,
               !.substeps = @ + r.n]

\* world.step(fixedDt, elapsed): the elapsed time is accumulated, whole
\* fixed steps are taken from it, the remainder stays for the next call.
WorldStep(W, fixedDt, elapsed) ==
  LET r == StepLoop(W.bodies, W.accumulator + elapsed, fixedDt, 0)
  IN [W EXCEPT !.bodies = r.bodies,
               !.accumulator = r.accumulator,
               !.lastStepDt = elapsed,
               !.stepElapsed = @ + elapsed,
               !.substeps = @ + r.n]

\* The two copy loops of animate: every ball mesh, then every box mesh,
\* takes the position and quaternion of the body of the same index.
CopyPoses(meshes, ids, bs) ==
  [k \in DOMAIN meshes |->
     IF k <= Len(ids)
     THEN [meshes[k] EXCEPT !.position = bs[ids[k]].position,
                            !.quaternion = bs[ids[k]].quaternion]
     ELSE meshes[k]]
SceneSync(W) ==
  [W EXCEPT !.ballMeshes = CopyPoses(W.ballMeshes, balls, W.bodies),
            !.boxMeshes = CopyPoses(W.boxMeshes, boxes, W.bodies)]

\* horizontal velocities (x, z) the controller may ask for: at rest, or
\* walking along x
HorizontalVelocities == {<<0, 0>>, <<3 * Milli, 0>>}

\* controls.update(dt): while enabled, the wanted horizontal velocity is
\* written into the user's body, the vertical one is left alone; while not
\* enabled, nothing is done.
ControlsUpdate(W, en, hv) ==
  IF en
  THEN [W EXCEPT !.bodies[sphereBody].velocity = <<hv[1], @[2], hv[2]>>]
  ELSE W

\* (faulty variants of AnimateCalls: the step taken whether enabled or not; the
\* copy made whether enabled or not; the controller updated first)
AnimateCallsAlwaysStep(en) == <<"step", "sync", "update", "render">>
AnimateCallsSyncAlways(en) ==
  (IF en THEN <<"step">> ELSE <<>>) \o <<"sync", "update", "render">>
AnimateCallsUpdateFirst(en) ==
  <<"update">> \o (IF en THEN <<"step", "sync">> ELSE <<>>) \o <<"render">>

\* The calls the body of animate makes after taking the time, in order.
AnimateCalls(en) ==
  (IF en THEN <<"step", "sync">> ELSE <<>>) \o <<"update", "render">>

Exec(call, W, dt, en, hv) ==
  CASE call = "step" -> WorldStep(W, timeStep, dt)
    [] call = "sync" -> SceneSync(W)
    [] call = "update" -> ControlsUpdate(W, en, hv)
    [] OTHER -> W

RECURSIVE Run(_, _, _, _, _)
Run(calls, W, dt, en, hv) ==
  IF calls = <<>> THEN W
  ELSE Run(Tail(calls), Exec(Head(calls), W, dt, en, hv), dt, en, hv)

\* (faulty variant of FrameTiming: lastCallTime is not advanced)
FrameTimingStale(clock, lct) ==
  LET time == Quot(clock * TicksPerSec, Milli)
  IN [time |-> time, dt |-> time - lct, lastCallTime |-> lct]

\* const time = performance.now() / 1000; const dt = time - lastCallTime;
\* lastCallTime = time
FrameTiming(clock, lct) ==
  LET time == Quot(clock * TicksPerSec, Milli)
  IN [time |-> time, dt |-> time - lct, lastCallTime |-> time]

\* The main frame callback.  Its first run is the call at module load, some
\* time after lastCallTime was set; every later run follows the sun's frame
\* callback, which was registered first, in the same display frame.
Animate ==
  /\ \/ pc = "animate"
     \/ pc = "running" /\ phase = "sunDone"
  /\ phase' = "idle"
  /\ \E d \in (IF pc = "animate" THEN FrameDeltas ELSE {0}),
        hv \in HorizontalVelocities :
       /\ now + d <= MaxNow
       /\ now' = now + d
       /\ LET t == FrameTiming(now + d, lastCallTime)
              calls == AnimateCalls(enabled)
              W0 == [bodies |-> bodies, accumulator |-> accumulator,
                     boxMeshes |-> boxMeshes, ballMeshes |-> ballMeshes,
                     lastStepDt |-> lastStepDt, stepElapsed |-> stepElapsed,
                     substeps |-> substeps]
              W == Run(calls, W0, t.dt, enabled, hv)
          IN /\ lastCallTime' = t.lastCallTime
             /\ bodies' = W.bodies
             /\ accumulator' = W.accumulator
             /\ boxMeshes' = W.boxMeshes
             /\ ballMeshes' = W.ballMeshes
             /\ lastStepDt' = W.lastStepDt
             /\ stepElapsed' = W.stepElapsed
             /\ substeps' = W.substeps
             /\ frameTrace' = calls
  /\ prevFrameNow' = frameNow
  /\ frameNow' = now'
  /\ pc' = "running"
  /\ lastEvent' = "animate"
  /\ UNCHANGED <<i, last, worldBodies, constraints, boxes, balls, enabled,
                 display, lastTime, theta, lastLockEvent, initialBodies, lastShot>>

\* 2 * Math.PI, in micro-radians
TwoPi == 6283185

\* The frame callback of initThree: the sun moves on, the scene is rendered.
SunAnimate ==
  /\ pc = "running"
  /\ phase = "idle"
  /\ phase' = "sunDone"
  /\ \E d \in FrameDeltas :
       /\ now + d <= MaxNow
       /\ now' = now + d
       /\ LET deltaTime == now' - lastTime
              th == theta + sunSpeed * deltaTime
          IN theta' = IF th > TwoPi THEN th - TwoPi ELSE th
  /\ lastTime' = now'
  /\ frameTrace' = <<"updateSunPosition", "render">>
  /\ lastEvent' = "sunAnimate"
  /\ UNCHANGED <<pc, i, last, worldVars, enabled, display, lastCallTime,
                 lastLockEvent, stepHistory, initialBodies, lastShot>>

\* --------------------------------------------------------- lock, unlock
\* the 'lock' handler
OnLock == [enabled |-> TRUE, display |-> "none"]
\* (faulty variant of OnUnlock: the overlay is not shown again)
OnUnlockKeepsHidden == [enabled |-> FALSE, display |-> "none"]
\* the 'unlock' handler
OnUnlock == [enabled |-> FALSE, display |-> "flex"]

Lock ==
  /\ pc = "running"
  /\ phase = "idle"
  /\ enabled' = OnLock.enabled
  /\ display' = OnLock.display
  /\ lastLockEvent' = "lock"
  /\ lastEvent' = "lock"
  /\ UNCHANGED <<pc, phase, i, last, worldVars, clockVars, frameTrace, stepHistory,
                 initialBodies, lastShot>>

Unlock ==
  /\ pc = "running"
  /\ phase = "idle"
  /\ enabled' = OnUnlock.enabled
  /\ display' = OnUnlock.display
  /\ lastLockEvent' = "unlock"
  /\ lastEvent' = "unlock"
  /\ UNCHANGED <<pc, phase, i, last, worldVars, clockVars, frameTrace, stepHistory,
                 initialBodies, lastShot>>

\* ---------------------------------------------------------------- click
\* forward axes of the view, in thousandths
ViewForwards == {<<0, 0, -Milli>>, <<600, -800, 0>>}
\* where the camera is, relative to the user's body: an eye height above it
EyeOffsets == {<<0, 700, 0>>}

\* new Vector3(0, 0, 1).unproject(camera): the point of the far plane at the
\* centre of the view
Unproject(cameraPosition, forward) ==
  VAdd(cameraPosition, VScaleDiv(forward, Far * Milli, Milli))

\* getShootDirection: from the user's body towards the unprojected point
GetShootDirection(farPoint, bodyPosition) ==
  Normalize(VSub(farPoint, bodyPosition))

\* (faulty variant of ClickAccepted: the guard is missing)
ClickAlways(en) == TRUE
\* if (!controls.enabled) return
ClickAccepted(en) == en

\* (faulty variant of SpawnOffset: the 2 % margin is missing)
SpawnOffsetNoMargin == radius + ballRadius
\* sphereShape.radius * 1.02 + ballShape.radius
SpawnOffset == Quot(radius * 102, 100) + ballRadius
\* the ball is moved outside the player sphere
ShootPosition(origin, direction) ==
  VAdd(origin, VScaleDiv(direction, SpawnOffset, Milli))
ShootVelocity(direction) ==
  <<direction[1] * shootVelocity, direction[2] * shootVelocity,
    direction[3] * shootVelocity>>

\* The window's click handler.
Click ==
  /\ pc = "running"
  /\ phase = "idle"
  /\ lastEvent' = "click"
  /\ IF ClickAccepted(enabled)
     THEN /\ Len(balls) < MaxBalls
          /\ \E forward \in ViewForwards, eye \in EyeOffsets :
               LET id == Len(bodies) + 1
                   origin == bodies[sphereBody].position
                   shootDirection ==
                     GetShootDirection(Unproject(VAdd(origin, eye), forward), origin)
                   ballBody == [NewBody(Milli) EXCEPT
                                  !.velocity = ShootVelocity(shootDirection),
                                  !.position = ShootPosition(origin, shootDirection)]
                   ballMesh == [NewMesh EXCEPT !.position = ballBody.position]
               IN /\ bodies' = Append(bodies, ballBody)
                  /\ worldBodies' = AddBody(worldBodies, id)
                  /\ balls' = Append(balls, id)
                  /\ ballMeshes' = Append(ballMeshes, ballMesh)
                  /\ lastShot' = [valid |-> TRUE, direction |-> shootDirection,
                                  origin |-> origin, ball |-> id]
          /\ UNCHANGED <<constraints, accumulator, boxes, boxMeshes>>
     ELSE UNCHANGED <<worldVars, lastShot>>
  /\ UNCHANGED <<pc, phase, i, last, enabled, display, clockVars, frameTrace,
                 lastLockEvent, stepHistory, initialBodies>>

Next ==
  \/ AddBox
  \/ BeginChain
  \/ AddLinkedBox
  \/ InitPointerLock
  \/ Animate
  \/ SunAnimate
  \/ Lock
  \/ Unlock
  \/ Click

Spec == Init /\ [][Next]_vars

\* =============================================================== claims
Count(seq, x) == Cardinality({k \in DOMAIN seq : seq[k] = x})
\* the first place of x in seq, 0 when it is not there
Index(seq, x) ==
  IF Count(seq, x) = 0 THEN 0
  ELSE CHOOSE k \in DOMAIN seq :
         seq[k] = x /\ \A j \in DOMAIN seq : seq[j] = x => k <= j
Mirrors(meshes, ids) ==
  /\ Len(meshes) = Len(ids)
  /\ \A k \in DOMAIN ids :
       /\ meshes[k].position = bodies[ids[k]].position
       /\ meshes[k].quaternion = bodies[ids[k]].quaternion
\* a state in which a frame callback has just rendered
Rendered == lastEvent \in {"animate", "sunAnimate"}
MainFrame == lastEvent = "animate"

\* C1 (freeze): from a state in which the controls are not enabled no step
\* of the program changes the position or the orientation of any body, and
\* a run of the main frame callback with the controls not enabled makes no
\* call of world.step.
C1_Freeze ==
  /\ [][~enabled =>
          \A id \in DOMAIN bodies :
             /\ id \in DOMAIN bodies'
             /\ bodies'[id].position = bodies[id].position
             /\ bodies'[id].quaternion = bodies[id].quaternion]_vars
  /\ [](MainFrame /\ ~enabled => Count(frameTrace, "step") = 0)
\* a frame has run, not enabled, after the world has moved and a ball was shot
C1_Witness ==
  MainFrame /\ ~enabled /\ substeps > 0 /\ Len(balls) > 0

\* C2 (click): a click with the controls not enabled changes nothing of the
\* world; a click with the controls enabled adds exactly one new body to
\* the world and to balls, one mesh to ballMeshes, and changes no body that
\* was there; balls and ballMeshes have the same length in every state.
C2_Click ==
  /\ [](Len(balls) = Len(ballMeshes))
  /\ [][lastEvent' = "click" =>
          IF enabled
          THEN /\ Len(bodies') = Len(bodies) + 1
               /\ \A id \in DOMAIN bodies : bodies'[id] = bodies[id]
               /\ worldBodies' = Append(worldBodies, Len(bodies'))
               /\ balls' = Append(balls, Len(bodies'))
               /\ Len(ballMeshes') = Len(ballMeshes) + 1
               /\ \A k \in DOMAIN ballMeshes : ballMeshes'[k] = ballMeshes[k]
               /\ UNCHANGED <<boxes, boxMeshes, constraints>>
          ELSE UNCHANGED worldVars]_vars
\* an accepted click has just filled the ball list
C2_Witness ==
  lastEvent = "click" /\ enabled /\ Len(balls) = MaxBalls /\ Len(ballMeshes) = MaxBalls

\* C3 (lock state machine): before any lock or unlock event the controls
\* are not enabled and the overlay is not hidden; after a lock event they
\* are enabled and the overlay is hidden; after an unlock event they are
\* not enabled and the overlay is shown.
C3_LockMachine ==
  /\ lastLockEvent = "none" => ~enabled /\ display # "none"
  /\ lastLockEvent = "lock" => enabled /\ display = "none"
  /\ lastLockEvent = "unlock" => ~enabled /\ display = "flex"
  /\ enabled <=> display = "none"
\* unlocked again after a locked spell in which the world moved
C3_Witness ==
  lastLockEvent = "unlock" /\ ~enabled /\ display = "flex" /\ substeps > 0

RECURSIVE Ballistic(_, _)
\* a body after k fixed steps
Ballistic(b, k) == IF k = 0 THEN b ELSE Ballistic(Integrate(b, timeStep), k - 1)

\* C4 (accumulator): the number of fixed steps taken so far, the remainder
\* kept, and the state of every box depend only on the sum of the elapsed
\* times handed to world.step, not on how the sum was split over the calls.
C4_Accumulator ==
  /\ stepElapsed >= 0
  /\ substeps = stepElapsed \div timeStep
  /\ accumulator = stepElapsed % timeStep
  /\ pc = "running" =>
       \A k \in DOMAIN boxes :
          bodies[boxes[k]] =
            IF initialBodies[boxes[k]].mass > 0
            THEN Ballistic(initialBodies[boxes[k]], substeps)
            ELSE initialBodies[boxes[k]]
\* a call whose own elapsed time is below one fixed step has taken a step
\* out of what the calls before it left
C4_Witness ==
  /\ MainFrame /\ Count(frameTrace, "step") = 1
  /\ lastStepDt < timeStep /\ accumulator < lastStepDt /\ substeps >= 2

\* C5 (proxies mirror bodies): whenever a frame callback has rendered, every
\* box mesh and every ball mesh has the position and the orientation of the
\* body of the same index.
C5_ProxiesMirrorBodies ==
  Rendered => Mirrors(boxMeshes, boxes) /\ Mirrors(ballMeshes, balls)

DistSq(a, b) == Dot(VSub(a, b), VSub(a, b))

\* C6 (spawn): after an accepted click the new ball is at the user's body
\* position plus the shoot direction times (radius * 1.02 + ball radius),
\* at least radius + ball radius away from it, and its velocity is the
\* shoot direction times 15; the direction has length one, to a hundredth.
C6_Spawn ==
  lastEvent = "click" /\ enabled =>
    LET b == bodies[lastShot.ball]
        o == lastShot.origin
        d == lastShot.direction
        reach == (radius * 102) \div 100 + ballRadius
    IN /\ lastShot.valid
       /\ lastShot.ball = balls[Len(balls)]
       /\ o = bodies[sphereBody].position
       /\ \A c \in 1..3 : b.position[c] = o[c] + Quot(d[c] * reach, Milli)
       /\ DistSq(b.position, o) >= (radius + ballRadius) * (radius + ballRadius)
       /\ \A c \in 1..3 : b.velocity[c] = 15 * d[c]
       /\ Dot(d, d) >= 990 * 990 /\ Dot(d, d) <= Milli * Milli
\* a shot along a slanted view, from a user that has moved
C6_Witness ==
  /\ lastEvent = "click" /\ enabled /\ lastShot.valid
  /\ lastShot.origin # <<0, 5 * Milli, 0>>
  /\ lastShot.direction[1] # 0 /\ lastShot.direction[2] # 0

\* C7 as claimed: every frame callback that renders has made the copy
\* exactly once, before the render and after the step if it made one.
C7_SyncOncePerRender ==
  Rendered =>
    /\ Count(frameTrace, "sync") = 1
    /\ Index(frameTrace, "sync") < Index(frameTrace, "render")
    /\ Count(frameTrace, "step") > 0 =>
         Index(frameTrace, "step") < Index(frameTrace, "sync")
\* C7 (amended): a run of the main frame callback with the controls enabled
\* makes the copy exactly once, after its one step and before its one
\* render; a run with the controls not enabled makes no copy; the sun's
\* frame callback renders once and makes no copy.
C7_SyncWhenEnabled ==
  /\ MainFrame /\ enabled =>
       /\ Count(frameTrace, "sync") = 1
       /\ Count(frameTrace, "step") = 1
       /\ Count(frameTrace, "render") = 1
       /\ Index(frameTrace, "step") < Index(frameTrace, "sync")
       /\ Index(frameTrace, "sync") < Index(frameTrace, "render")
       /\ Mirrors(boxMeshes, boxes) /\ Mirrors(ballMeshes, balls)
  /\ MainFrame /\ ~enabled =>
       Count(frameTrace, "sync") = 0 /\ Count(frameTrace, "render") = 1
  /\ lastEvent = "sunAnimate" =>
       Count(frameTrace, "sync") = 0 /\ Count(frameTrace, "render") = 1
\* an enabled frame that moved the world
C7_Witness ==
  MainFrame /\ enabled /\ Count(frameTrace, "sync") = 1 /\ substeps > 0

\* C8 as claimed: in every run of the main frame callback the controller
\* update is the first call, before the step.
C8_UpdateFirst ==
  MainFrame =>
    /\ Index(frameTrace, "update") = 1
    /\ Count(frameTrace, "step") > 0 =>
         Index(frameTrace, "update") < Index(frameTrace, "step")
\* C8 (amended): every run of the main frame callback calls, in this order,
\* the step and the copy (both only when the controls are enabled), the
\* controller update, the render; the update never comes before the step.
C8_StepSyncUpdateRender ==
  MainFrame =>
    /\ Count(frameTrace, "update") = 1 /\ Count(frameTrace, "render") = 1
    /\ Index(frameTrace, "update") < Index(frameTrace, "render")
    /\ Index(frameTrace, "render") = Len(frameTrace)
    /\ Count(frameTrace, "step") = (IF enabled THEN 1 ELSE 0)
    /\ Count(frameTrace, "sync") = (IF enabled THEN 1 ELSE 0)
    /\ enabled =>
         /\ Index(frameTrace, "step") = 1
         /\ Index(frameTrace, "step") < Index(frameTrace, "sync")
         /\ Index(frameTrace, "sync") < Index(frameTrace, "update")
\* an enabled frame: four calls, the update third
C8_Witness ==
  MainFrame /\ enabled /\ Len(frameTrace) = 4 /\ Index(frameTrace, "update") = 3

\* the links built so far, and the k-th of them (from 0)
built == IF Len(boxes) > NumBoxes THEN Len(boxes) - NumBoxes ELSE 0
ChainBody(k) == boxes[NumBoxes + k + 1]

\* C9 (chain): link 0 has mass 0, every later link the mass 0.3; link k > 0
\* brought exactly two constraints, both from link k to link k - 1; there
\* are 2 (links - 1) constraints; every constraint in the world, in every
\* state, is between two bodies that are in the world; start-up builds N
\* links.
C9_Chain ==
  /\ mass > 0
  /\ \A k \in 0..(built - 1) :
       bodies[ChainBody(k)].mass = (IF k = 0 THEN 0 ELSE mass)
  /\ Len(constraints) = (IF built = 0 THEN 0 ELSE 2 * (built - 1))
  /\ \A k \in 1..(built - 1) :
       \A c \in {2 * k - 1, 2 * k} :
          /\ constraints[c].bodyA = ChainBody(k)
          /\ constraints[c].bodyB = ChainBody(k - 1)
  /\ \A c \in DOMAIN constraints :
       InWorld(constraints[c].bodyA) /\ InWorld(constraints[c].bodyB)
  /\ pc \in {"pointerLock", "animate", "running"} => built = N
\* the whole chain is built
C9_Witness ==
  pc = "running" /\ built = N /\ Len(constraints) = 2 * (N - 1)

\* C10 (elapsed time): a run of the main frame callback that calls
\* world.step was preceded by another run, and hands it exactly the time
\* between the two, which is not negative; every run leaves lastCallTime at
\* its own time.
C10_ElapsedIsFrameInterval ==
  MainFrame =>
    /\ lastCallTime = frameNow * TicksPerMs
    /\ Count(frameTrace, "step") > 0 =>
         /\ prevFrameNow >= 0
         /\ lastStepDt = (frameNow - prevFrameNow) * TicksPerMs
         /\ lastStepDt >= 0
\* the first step ever taken, after frames that took none
C10_Witness ==
  /\ MainFrame /\ Count(frameTrace, "step") = 1
  /\ stepElapsed = lastStepDt /\ prevFrameNow > 0

====
